---- MODULE Spec2Model ----
(***************************************************************************)
(* Catalog import/export pipeline (backend/tasks.py) and the basket/order  *)
(* engine (backend/views.py, backend/signals.py) of the procurement        *)
(* backend, over the relational schema of backend/models.py.               *)
(*                                                                         *)
(* Rows are records; a table is the set of its rows.  Foreign keys hold    *)
(* the key of the row they point to.  A Shop is keyed by its name (the     *)
(* importer resolves shops by name only), a Product by its name, a         *)
(* Parameter by its name; a ProductInfo, an Order and an OrderItem have a  *)
(* database primary key drawn from a sequence that never hands out the     *)
(* same value twice.                                                       *)
(***************************************************************************)
EXTENDS Integers, Sequences, FiniteSets, TLC

\* ------------------------------------------------------------------ bounds
\* longest goods list of an input document
MaxGoods == 2
\* primary keys the ProductInfo sequence may hand out in one behaviour
MaxPk == 3
\* primary keys the Order sequence may hand out in one behaviour
MaxOrderPk == 2
\* primary keys the OrderItem sequence may hand out in one behaviour
MaxItemPk == 2
\* longest item list of one basket request
MaxBatch == 2

\* ------------------------------------------------------------------ users
None == "None"

ShopUsers == {"u1", "u2"}

Buyers == {"b1"}

Users == ShopUsers \cup Buyers

\* User.user_type
UserType(u) == IF u \in ShopUsers THEN "shop" ELSE "buyer"

ShopNames == {"S", "T"}

\* ------------------------------------------------------------ input space
\* fields every goods entry must carry, in the order do_import tests them
RequiredItemFields == <<"id", "category", "model", "quantity", "price", "price_rrc", "name">>

\* top-level keys every document must carry, in the order do_import tests them
RequiredFields == <<"shop", "categories", "goods">>

Cat1 == [id |-> 1, name |-> "Phones"]

Cat2 == [id |-> 2, name |-> "TVs"]

CategoryLists == {<<Cat1, Cat2>>}

\* the scenario entry of the specification: one phone, one parameter
ItemX == [id |-> 1, name |-> "X", category |-> 1, model |-> "m1", quantity |-> 5,
          price |-> 10, price_rrc |-> 12, parameters |-> {<<"color", "red">>}]

\* the same external id and product re-listed with quantity 0 and no parameters
ItemX0 == [id |-> 1, name |-> "X", category |-> 1, model |-> "m1", quantity |-> 0,
           price |-> 10, price_rrc |-> 12, parameters |-> {}]

\* the product X listed under another category and another external id,
\* the optional key parameters absent
ItemX2 == [id |-> 2, name |-> "X", category |-> 2, model |-> "m2", quantity |-> 3,
           price |-> 20, price_rrc |-> 22]

\* an entry whose category id matches no Category row
ItemBadCat == [id |-> 3, name |-> "Z", category |-> 9, model |-> "m3", quantity |-> 1,
               price |-> 30, price_rrc |-> 33, parameters |-> {<<"color", "blue">>}]

\* an entry that lacks the required field price
ItemNoPrice == [id |-> 4, name |-> "Y", category |-> 1, model |-> "m4", quantity |-> 2,
                price_rrc |-> 44]

Items == {ItemX, ItemX0, ItemX2, ItemBadCat, ItemNoPrice}

RECURSIVE SeqsUpTo(_, _)
SeqsUpTo(S, n) ==
    IF n = 0 THEN {<<>>}
    ELSE LET shorter == SeqsUpTo(S, n - 1)
         IN  shorter \cup {Append(q, x) : q \in {r \in shorter : Len(r) = n - 1}, x \in S}

GoodsLists == SeqsUpTo(Items, MaxGoods)

\* the documents a source URL may serve for the shop S: every category list and
\* goods list, and one document without the top-level key goods
Docs ==
    {[shop |-> "S", categories |-> cl, goods |-> gl] : cl \in CategoryLists, gl \in GoodsLists}
    \cup {[shop |-> "S", categories |-> <<Cat1>>]}

\* the documents of the export runs: goods lists of at most one entry
ShortDocs == {d \in Docs : "goods" \in DOMAIN d /\ Len(d.goods) <= 1}

\* outcome of the two HTTP requests and of the YAML parse
NetOutcomes == {"ok", "head_fail", "get_fail", "bad_yaml"}

\* ------------------------------------------------------------------ state
VARIABLES
    shops,              \* Shop: name -> owning user, None when no such row
    categories,         \* Category rows [id, name]
    categoryShops,      \* Category.shops many-to-many rows <<category id, shop>>
    products,           \* Product rows [name, category]
    productInfos,       \* ProductInfo rows
    parameters,         \* Parameter rows <<name, n>>: the n-th row of that name
    productParameters,  \* ProductParameter rows [product_info, parameter, value]
    nextPk,             \* next value of the ProductInfo primary-key sequence
    orderItems,         \* OrderItem rows [id, order, product_info, quantity]
    imp,                \* the do_import job: position, arguments, open transaction
    exp,                \* the do_export job: last file written, last result
    orders,             \* Order rows [id, user, status, contact]
    contacts,           \* Contact rows [id, user]
    nextOrderPk,        \* next value of the Order primary-key sequence
    nextItemPk,         \* next value of the OrderItem primary-key sequence
    events,             \* the new_order signals sent so far, oldest first
    resp,               \* the request handled last and the response it got
    calls               \* per server worker, the basket request it is in the middle of

catalogVars == <<shops, categories, categoryShops, products, productInfos, parameters,
                 productParameters>>

\* the tables the importer writes inside its transaction
txTables == <<products, productInfos, parameters, productParameters, orderItems>>

\* what only the basket and order views write
orderVars == <<orders, contacts, nextOrderPk, nextItemPk, events, resp, calls>>

vars == <<shops, categories, categoryShops, products, productInfos, parameters,
          productParameters, nextPk, orderItems, imp, exp, orders, contacts, nextOrderPk,
          nextItemPk, events, resp, calls>>

\* ------------------------------------------------------------- do_import
Min(S) == CHOOSE x \in S : \A y \in S : x <= y

\* the first of the keys `fields` that `rec` lacks, None when it has them all
FirstMissing(rec, fields) ==
    LET idx == {i \in 1..Len(fields) : fields[i] \notin DOMAIN rec}
    IN  IF idx = {} THEN None ELSE fields[Min(idx)]

NoError == [Status |-> TRUE, Error |-> "none", Detail |-> None]

Failure(kind, detail) == [Status |-> FALSE, Error |-> kind, Detail |-> detail]

\* the writes of an open transaction: nothing of it is in the tables before commit
EmptyTx == [delPI |-> {}, newPI |-> {}, newPP |-> {}, products |-> {}, parameters |-> {}]

NoDoc == [shop |-> None]

IdleJob == [pc |-> "idle", doc |-> NoDoc, user |-> None, net |-> "ok", shop |-> None, i |-> 0,
            pk0 |-> 0, prior |-> 0, repeat |-> FALSE, fromFile |-> FALSE, fresh |-> FALSE,
            result |-> NoError, w |-> EmptyTx, retries |-> 0]

\* tasks.py:38,153: @shared_task(bind=True, max_retries=3)
max_retries == 3

\* self.request.retries of the execution that starts now: the retries made so
\* far when the job was sent back for a retry, none for a new job
Retries(job) == IF job.pc = "retry" THEN job.retries ELSE 0

\* tasks.py:138-150: the handlers of do_import; the exception that reaches them
\* is retried only when it is a requests.RequestException and retries remain
ImportRetried(failure, retries) ==
    failure.Error = "RequestException" /\ retries < max_retries

\* mutant: the goods are processed without a transaction
NoAtomicBlock == FALSE

\* tasks.py:88: the goods are processed inside `with transaction.atomic()`
InAtomicBlock == TRUE

\* tasks.py:49-68: the checks that precede the reading of the document
Precheck(u, net) ==
    IF net = "head_fail" THEN Failure("ValueError", "url")
    ELSE IF u = None THEN Failure("ValueError", "user")
    ELSE IF UserType(u) # "shop" THEN Failure("ValueError", "user_type")
    ELSE IF net = "get_fail" THEN Failure("JsonResponse", "fetch")
    ELSE IF net = "bad_yaml" THEN Failure("YAMLError", "yaml")
    ELSE NoError

\* tasks.py:70-73: the required top-level keys
CheckRequiredFields(d) ==
    IF FirstMissing(d, RequiredFields) # None
    THEN Failure("KeyError", FirstMissing(d, RequiredFields))
    ELSE NoError

\* mutant: the owner of an existing shop is not compared with the requesting user
ResolveShopNoOwnerTest(name, u) ==
    IF shops[name] = None /\ \E s \in ShopNames : shops[s] = u
    THEN Failure("IntegrityError", "shop_user")
    ELSE NoError

\* tasks.py:76-78: Shop.objects.get_or_create(name, defaults user) and the owner test;
\* Shop.user is one-to-one, so a second shop for the same user violates uniqueness
ResolveShop(name, u) ==
    IF shops[name] = None
    THEN IF \E s \in ShopNames : shops[s] = u
         THEN Failure("IntegrityError", "shop_user")
         ELSE NoError
    ELSE IF shops[name] # u
         THEN Failure("PermissionError", "owner")
         ELSE NoError

\* tasks.py:81-85: Category.objects.get_or_create(id, defaults name), entry by entry
RECURSIVE UpsertCategories(_, _)
UpsertCategories(cats, list) ==
    IF list = <<>> THEN cats
    ELSE LET c == Head(list)
             next == IF \E x \in cats : x.id = c.id THEN cats
                     ELSE cats \cup {[id |-> c.id, name |-> c.name]}
         IN  UpsertCategories(next, Tail(list))

\* rows of `base` replaced by the rows of `over` that carry the same name
Overlay(base, over) == {p \in base : ~\E q \in over : q.name = p.name} \cup over

\* what the open transaction reads
ViewPI(w) == {r \in productInfos : r.pk \notin w.delPI} \cup w.newPI

ViewProducts(w) == Overlay(products, w.products)

\* mutant: the shop's prior rows are not deleted
DeleteNothing(w, shop) == w

\* tasks.py:89: ProductInfo.objects.filter(shop=shop).delete()
DeleteShopInfos(w, shop) ==
    [w EXCEPT !.delPI = @ \cup {r.pk : r \in {x \in productInfos : x.shop = shop}}]

\* tasks.py:107-113: Product.objects.get_or_create(name, defaults category), then
\* the category is overwritten when it differs
UpsertProduct(w, name, cat) ==
    IF \E p \in ViewProducts(w) : p.name = name /\ p.category = cat
    THEN w
    ELSE [w EXCEPT !.products =
            {q \in @ : q.name # name} \cup {[name |-> name, category |-> cat]}]

\* mutant: quantity is an IntegerField, the column carries no CHECK
InsertAnyQuantity(rows, row) ==
    /\ ~\E r \in rows : r.external_id = row.external_id
    /\ ~\E r \in rows : /\ r.product = row.product
                         /\ r.shop = row.shop
                         /\ r.external_id = row.external_id
    /\ row.external_id >= 0
    /\ row.price >= 0
    /\ row.price_rrc >= 0

\* models.py:197-211: external_id is unique over the whole table, (product, shop,
\* external_id) is unique, and the PositiveIntegerField columns carry a CHECK >= 0
InsertAllowed(rows, row) ==
    /\ ~\E r \in rows : r.external_id = row.external_id
    /\ ~\E r \in rows : /\ r.product = row.product
                         /\ r.shop = row.shop
                         /\ r.external_id = row.external_id
    /\ row.external_id >= 0
    /\ row.quantity >= 0
    /\ row.price >= 0
    /\ row.price_rrc >= 0

\* tasks.py:116-124: the row ProductInfo.objects.create builds from a goods entry
InfoRow(pk, shop, item) ==
    [pk |-> pk, product |-> item.name, shop |-> shop, model |-> item.model,
     external_id |-> item.id, price |-> item.price, price_rrc |-> item.price_rrc,
     quantity |-> item.quantity]

\* tasks.py:127-128: the parameters of an entry; the key is optional
ItemParameters(item) == IF "parameters" \in DOMAIN item THEN item.parameters ELSE {}

\* mutant: Parameter.objects.create(name=name), a new row every time
CreateParameter(rows, name) ==
    rows \cup {<<name, 1 + Cardinality({r \in rows : r[1] = name})>>}

\* tasks.py:129: Parameter.objects.get_or_create(name=name); Parameter.name is not
\* unique, a row is <<name, n>> for the n-th row of that name
UpsertParameter(rows, name) ==
    IF \E r \in rows : r[1] = name
    THEN rows
    ELSE rows \cup {<<name, 1>>}

RECURSIVE UpsertParameters(_, _)
UpsertParameters(rows, names) ==
    IF names = {} THEN rows
    ELSE LET n == CHOOSE x \in names : TRUE
         IN  UpsertParameters(UpsertParameter(rows, n), names \ {n})

\* mutant: the failed category lookup is not caught
RaiseOnMissingCategory == "raise"

\* tasks.py:100-104: the category of an entry is looked up; when there is none
\* the entry is skipped with a warning
OnMissingCategory == "continue"

\* tasks.py:91-134: one pass of the loop over data['goods'].  out is "created",
\* "continue" (entry skipped) or "raise" (the exception leaves the atomic block)
ImportItem(w, pk, shop, item) ==
    LET missing == FirstMissing(item, RequiredItemFields)
    IN  IF missing # None
        THEN [out |-> "raise", result |-> Failure("KeyError", missing), w |-> w, pk |-> pk]
        ELSE IF ~\E c \in categories : c.id = item.category
        THEN [out |-> OnMissingCategory, result |-> Failure("DoesNotExist", "category"),
              w |-> w, pk |-> pk]
        ELSE LET w1 == UpsertProduct(w, item.name, item.category)
                 row == InfoRow(pk, shop, item)
             IN  IF ~InsertAllowed(ViewPI(w1), row)
                 THEN [out |-> "raise", result |-> Failure("IntegrityError", "product_info"),
                       w |-> w1, pk |-> pk + 1]
                 ELSE [out |-> "created", result |-> NoError, pk |-> pk + 1,
                       w |-> [w1 EXCEPT
                                !.newPI = @ \cup {row},
                                !.parameters =
                                    UpsertParameters(parameters \cup @,
                                        {p[1] : p \in ItemParameters(item)}) \ parameters,
                                !.newPP = @ \cup {[product_info |-> pk, parameter |-> p[1],
                                                   value |-> p[2]] : p \in ItemParameters(item)}]]

\* the tables as they are once the writes `w` are committed; deleting a ProductInfo
\* cascades to its ProductParameter and OrderItem rows (models.py:235, 298)
Persist(w) ==
    /\ productInfos' = ViewPI(w)
    /\ products' = ViewProducts(w)
    /\ parameters' = parameters \cup w.parameters
    /\ productParameters' =
          {r \in productParameters : r.product_info \notin w.delPI} \cup w.newPP
    /\ orderItems' = {o \in orderItems : o.product_info \notin w.delPI}

\* the job `j` after a statement whose writes so far are `w`: they stay in the
\* transaction, or reach the tables at once when no transaction is open
Write(j, w) ==
    IF InAtomicBlock
    THEN /\ imp' = [j EXCEPT !.w = w]
         /\ UNCHANGED txTables
    ELSE /\ imp' = [j EXCEPT !.w = EmptyTx]
         /\ Persist(w)

\* ------------------------------------------------------------- do_export
RECURSIVE InfosInOrder(_)
InfosInOrder(rows) ==
    IF rows = {} THEN <<>>
    ELSE LET first == CHOOSE r \in rows : \A q \in rows : r.pk <= q.pk
         IN  <<first>> \o InfosInOrder(rows \ {first})

RECURSIVE CategoriesInOrder(_)
CategoriesInOrder(rows) ==
    IF rows = {} THEN <<>>
    ELSE LET first == CHOOSE r \in rows : \A q \in rows : r.id <= q.id
         IN  <<first>> \o CategoriesInOrder(rows \ {first})

\* tasks.py:187: Category.objects.filter(shops=shop)
ShopCategories(shop) == {c \in categories : <<c.id, shop>> \in categoryShops}

\* tasks.py:201-214: the goods entry written for one ProductInfo row
GoodsData(r) ==
    [name |-> r.product,
     category_id |-> (CHOOSE p \in products : p.name = r.product).category,
     model |-> r.model,
     quantity |-> r.quantity,
     price |-> r.price,
     price_rrc |-> r.price_rrc,
     id |-> r.external_id,
     parameters |-> {<<pp.parameter, pp.value>> :
                        pp \in {x \in productParameters : x.product_info = r.pk}}]

\* tasks.py:178-216: the document do_export builds for a shop.  The lists are in
\* key order here; the claims compare them as sets
ExportData(shop) ==
    LET infos == InfosInOrder({r \in productInfos : r.shop = shop})
        cats == CategoriesInOrder(ShopCategories(shop))
    IN  [user_id |-> shops[shop],
         shop |-> shop,
         categories |-> [i \in 1..Len(cats) |-> [id |-> cats[i].id, name |-> cats[i].name]],
         goods |-> [i \in 1..Len(infos) |-> GoodsData(infos[i])]]

\* outcome of the storage calls of do_export: default_storage.exists,
\* os.makedirs and default_storage.save
StorageOutcomes == {"ok", "exists_fail", "mkdir_fail", "save_fail"}

\* the shop ids a do_export job is sent with: the shops by name, or no id
ExportIds == ShopNames \cup {None}

IdleExport == [pc |-> "idle", arg |-> None, retries |-> 0, countdown |-> 0,
               file |-> NoDoc, written |-> FALSE, result |-> NoError]

\* mutant: the handler sends the job back for a retry whatever its retries
RetryAlways(job, exception) ==
    [job EXCEPT !.pc = "retry", !.retries = @ + 1, !.countdown = 2 ^ job.retries * 10]

\* tasks.py:263-275: the handler of an exception of do_export: the job is sent
\* back for a retry after 2 ** retries * 10 seconds while retries remain, and
\* ends with EXPORT_FAILED after that
ExportHandler(job, exception) ==
    IF job.retries < max_retries
    THEN [job EXCEPT !.pc = "retry", !.retries = @ + 1, !.countdown = 2 ^ job.retries * 10]
    ELSE [job EXCEPT !.pc = "done", !.result = Failure("EXPORT_FAILED", exception)]

\* tasks.py:162-275: one execution of do_export for a shop id; the YAML text of
\* the data is what yaml.safe_load reads back, so the file is held as the data
\* it encodes
DoExport(s, io) ==
    /\ imp.pc # "tx"
    /\ exp.pc = "retry" => s = exp.arg
    /\ LET job == [exp EXCEPT !.arg = s, !.retries = Retries(exp),
                              !.countdown = IF exp.pc = "retry" THEN @ ELSE 0]
       IN  exp' = IF s = None
                  THEN ExportHandler(job, "ValueError")
                  ELSE IF shops[s] = None
                  THEN [job EXCEPT !.pc = "done", !.result = Failure("SHOP_NOT_FOUND", s)]
                  ELSE IF io = "exists_fail"
                  THEN ExportHandler(job, "OSError")
                  ELSE IF io = "mkdir_fail"
                  THEN [job EXCEPT !.pc = "done",
                                   !.result = Failure("DIRECTORY_CREATE_FAILED", s)]
                  ELSE IF io = "save_fail"
                  THEN [job EXCEPT !.pc = "done", !.result = Failure("FILE_SAVE_FAILED", s)]
                  ELSE [job EXCEPT !.pc = "done", !.file = ExportData(s), !.written = TRUE,
                                   !.result = NoError]
    /\ UNCHANGED <<catalogVars, nextPk, orderItems, imp, orderVars>>

\* ----------------------------------------------------- do_import, the job
GoodsLen(d) == IF "goods" \in DOMAIN d THEN Len(d.goods) ELSE 0

\* tasks.py:48-68: a job that ends before it has a document: the URL does not
\* answer, the user is missing or no shop, the download fails or is no YAML
DoImportRejected(u, net) ==
    /\ imp.pc \in {"idle", "done", "retry", "queued"}
    /\ imp.pc \in {"retry", "queued"} => u = imp.user
    /\ ~Precheck(u, net).Status
    /\ imp' = IF ImportRetried(Precheck(u, net), Retries(imp))
              THEN [IdleJob EXCEPT !.pc = "retry", !.user = u, !.net = net, !.pk0 = nextPk,
                                   !.retries = Retries(imp) + 1]
              ELSE [IdleJob EXCEPT !.pc = "done", !.user = u, !.net = net, !.pk0 = nextPk,
                                   !.retries = Retries(imp),
                                   !.result = Precheck(u, net)]
    /\ UNCHANGED <<catalogVars, nextPk, orderItems, exp, orderVars>>

\* tasks.py:48-89: the job up to and including the delete that opens the
\* transaction, for the document `d` served to the requesting user `u`
DoImportStart(d, u, fromFile) ==
    /\ imp.pc \in {"idle", "done", "retry", "queued"}
    /\ imp.pc \in {"retry", "queued"} => u = imp.user
    /\ Precheck(u, "ok").Status
    /\ nextPk + GoodsLen(d) <= MaxPk + 1
    /\ LET pre == CheckRequiredFields(d)
           res == IF pre.Status THEN ResolveShop(d.shop, u) ELSE pre
           j == [IdleJob EXCEPT
                   !.doc = d, !.user = u, !.pk0 = nextPk, !.retries = Retries(imp),
                   !.prior = IF pre.Status
                             THEN Cardinality({r \in productInfos : r.shop = d.shop})
                             ELSE 0,
                   !.fromFile = fromFile,
                   !.fresh = /\ fromFile
                             /\ shops[d.shop] # None
                             /\ d = ExportData(d.shop),
                   !.repeat = /\ imp.pc = "done"
                              /\ imp.doc = d
                              /\ imp.user = u]
       IN  IF ~res.Status
           THEN /\ imp' = [j EXCEPT !.pc = "done", !.result = res]
                /\ UNCHANGED <<catalogVars, orderItems>>
           ELSE /\ shops' = IF shops[d.shop] = None
                           THEN [shops EXCEPT ![d.shop] = u]
                           ELSE shops
                /\ categories' = UpsertCategories(categories, d.categories)
                /\ Write([j EXCEPT !.pc = "tx", !.shop = d.shop, !.i = 1],
                         DeleteShopInfos(EmptyTx, d.shop))
                /\ UNCHANGED categoryShops
    /\ UNCHANGED <<nextPk, exp, orderVars>>

\* tasks.py:91-134: the next goods entry inside the transaction; an exception
\* leaves the atomic block, which rolls its writes back, and is reported by the
\* handler of tasks.py:148-150
DoImportItem ==
    /\ imp.pc = "tx"
    /\ imp.i <= Len(imp.doc.goods)
    /\ LET r == ImportItem(imp.w, nextPk, imp.shop, imp.doc.goods[imp.i])
       IN  /\ nextPk' = r.pk
           /\ IF r.out = "raise"
              THEN /\ imp' = [imp EXCEPT !.pc = "done", !.result = r.result, !.w = EmptyTx]
                   /\ UNCHANGED txTables
              ELSE Write([imp EXCEPT !.i = @ + 1], r.w)
    /\ UNCHANGED <<shops, categories, categoryShops, exp, orderVars>>

\* tasks.py:88,136: the atomic block ends, its writes are committed, the job
\* returns {'Status': True}
DoImportCommit ==
    /\ imp.pc = "tx"
    /\ imp.i > Len(imp.doc.goods)
    /\ Persist(imp.w)
    /\ imp' = [imp EXCEPT !.pc = "done", !.result = NoError, !.w = EmptyTx]
    /\ UNCHANGED <<shops, categories, categoryShops, nextPk, exp, orderVars>>

\* the import job over the documents D
DoImport(D) ==
    \/ \E u \in Users \cup {None}, net \in NetOutcomes : DoImportRejected(u, net)
    \/ \E d \in D, u \in Users : DoImportStart(d, u, FALSE)
    \/ DoImportItem
    \/ DoImportCommit

\* the import job fed the file the last export wrote
DoImportExported ==
    /\ exp.written
    /\ \E u \in Users : DoImportStart(exp.file, u, TRUE)

Export == \E s \in ExportIds, io \in StorageOutcomes : DoExport(s, io)

\* ------------------------------------------------------ basket and order
\* the authenticated users that call the basket and order views
Callers == {"b1", "u1"}

\* a response a view returns
JsonResponse(status, error, count) ==
    [Status |-> status, Error |-> error, unhandled |-> FALSE, count |-> count]

\* an exception no handler of the view catches: the request ends in a server error
Unhandled(exception) ==
    [Status |-> FALSE, Error |-> exception, unhandled |-> TRUE, count |-> 0]

NoRequest == [op |-> "none", user |-> None, data |-> [items |-> <<>>],
              out |-> JsonResponse(TRUE, "none", 0)]

\* the items of a POST /basket: quantity within stock, above stock, zero or
\* negative; one item carries a field order of its own, the key of the first Order
AddItemInputs ==
    {[product_info |-> 1, quantity |-> 2], [product_info |-> 1, quantity |-> 7],
     [product_info |-> 1, quantity |-> 0],
     [product_info |-> 2, quantity |-> 2, order |-> 1], [product_info |-> 2, quantity |-> -1]}

\* a request body without the key items
NoItems == [format |-> "json"]

\* the bodies of a POST /basket; <<>> is the JSON text of an empty list
AddRequests == {[items |-> b] : b \in SeqsUpTo(AddItemInputs, MaxBatch)} \cup {NoItems}

\* the items of a PUT /basket
UpdateItemInputs == {[id |-> i, quantity |-> q] : i \in 1..MaxItemPk, q \in {1, 7}}

\* two lists of two entries: two rows, and the same row twice
UpdatePairs ==
    {<<[id |-> 1, quantity |-> 1], [id |-> 2, quantity |-> 7]>>,
     <<[id |-> 1, quantity |-> 1], [id |-> 1, quantity |-> 7]>>}

UpdateRequests ==
    {[items |-> <<x>>] : x \in UpdateItemInputs} \cup {[items |-> b] : b \in UpdatePairs}
       \cup {NoItems}

\* the bodies of a DELETE /basket: the numbers of the comma-separated list, none
\* when no entry of the list is a number
DeleteRequests == {[items |-> S] : S \in SUBSET (1..MaxItemPk)} \cup {NoItems}

\* the data of a POST /order: the id as a string of digits, another string or a
\* JSON number; a contact of a caller or of nobody; and a request without contact
CheckoutRequests ==
    {[id |-> i, idType |-> "digits", contact |-> c] : i \in 1..MaxOrderPk, c \in {1, 2, 9}}
    \cup {[id |-> 1, idType |-> t, contact |-> 1] : t \in {"word", "int"}}
    \cup {[id |-> 1, idType |-> "digits"]}

\* the workers of the server, each handling one request at a time
Workers == {"w1", "w2"}

IdleCall == [pc |-> "idle", op |-> "none", user |-> None, data |-> NoItems]

\* the caller's Order rows of status basket
Baskets(u) == {o \in orders : o.user = u /\ o.status = "basket"}

\* models.py:279: Order.contact is nullable; no Contact has the key 0
NoContact == 0

NewBasket(u) == [id |-> nextOrderPk, user |-> u, status |-> "basket", contact |-> NoContact]

\* views.py:578, 659: Order.objects.get_or_create(user_id=request.user.id,
\* status='basket')
GetOrCreateBasketByUserId(u) ==
    IF Cardinality(Baskets(u)) > 1
    THEN [exception |-> "MultipleObjectsReturned", orders |-> orders, id |-> 0,
          next |-> nextOrderPk]
    ELSE IF Baskets(u) # {}
    THEN [exception |-> None, orders |-> orders, id |-> (CHOOSE o \in Baskets(u) : TRUE).id,
          next |-> nextOrderPk]
    ELSE [exception |-> None, orders |-> orders \cup {NewBasket(u)}, id |-> nextOrderPk,
          next |-> nextOrderPk + 1]

\* views.py:514: Order.objects.get_or_create(user=request.user.id, status='basket');
\* the lookup accepts the key of the user, the creation does not: assigning an
\* integer to Order.user raises ValueError
GetOrCreateBasketByUser(u) ==
    IF Cardinality(Baskets(u)) > 1
    THEN [exception |-> "MultipleObjectsReturned", orders |-> orders, id |-> 0,
          next |-> nextOrderPk]
    ELSE IF Baskets(u) # {}
    THEN [exception |-> None, orders |-> orders, id |-> (CHOOSE o \in Baskets(u) : TRUE).id,
          next |-> nextOrderPk]
    ELSE [exception |-> "ValueError", orders |-> orders, id |-> 0, next |-> nextOrderPk]

\* serializers.py:140-151 over models.py:291-301: product_info names a ProductInfo
\* row and quantity, a PositiveIntegerField, is at least 0
ItemValid(item) ==
    /\ \E r \in productInfos : r.pk = item.product_info
    /\ item.quantity >= 0

\* mutant: order_item.setdefault('order', basket.id), a supplied order is kept
KeepOrder(item, basket) ==
    [k \in DOMAIN item \cup {"order"} |->
        IF k \in DOMAIN item THEN item[k] ELSE basket]

\* views.py:517: order_item.update({'order': basket.id}), a supplied order is
\* overwritten by the key of the caller's basket
SetOrder(item, basket) ==
    [k \in DOMAIN item \cup {"order"} |->
        IF k = "order" THEN basket ELSE item[k]]

\* views.py:516-528: the loop of BasketView.post over the items; the first item
\* that is not valid, or that repeats a product_info of its order
\* (models.py:304-307), ends the request with a failure
RECURSIVE AddItems(_, _, _, _, _)
AddItems(rows, pk, basket, items, created) ==
    IF items = <<>>
    THEN [rows |-> rows, pk |-> pk, out |-> JsonResponse(TRUE, "none", created)]
    ELSE LET item == SetOrder(Head(items), basket)
         IN  IF ~ItemValid(item)
             THEN [rows |-> rows, pk |-> pk, out |-> JsonResponse(FALSE, "invalid_item", 0)]
             ELSE IF \E r \in rows : r.order = item.order /\ r.product_info = item.product_info
             THEN [rows |-> rows, pk |-> pk, out |-> JsonResponse(FALSE, "duplicate_item", 0)]
             ELSE AddItems(rows \cup {[id |-> pk, order |-> item.order,
                                       product_info |-> item.product_info,
                                       quantity |-> item.quantity]},
                           pk + 1, basket, Tail(items), created + 1)

\* models.py:271-296: what an Order instance answers to: its fields, its manager
\* and the reverse accessor of OrderItem.order, named by related_name
OrderAttributes ==
    {"id", "user", "user_id", "date", "status", "contact", "contact_id", "objects",
     "order_items"}

\* views.py:441-444: the name under which BasketView.get reaches the lines of an
\* Order in prefetch_related and in the annotation of total_sum
BasketLinesLookup == "ordered_items"

\* views.py:427-449: BasketView.get: the caller's Orders of status basket; the
\* annotation raises FieldError when its lookup names no relation of Order
BasketViewGet(u) ==
    /\ resp' = [op |-> "basket_get", user |-> u, data |-> NoItems,
                out |-> IF BasketLinesLookup \notin OrderAttributes
                        THEN Unhandled("FieldError")
                        ELSE [Status |-> TRUE, Error |-> "none", unhandled |-> FALSE,
                              count |-> Cardinality(Baskets(u)),
                              rows |-> {o.id : o \in Baskets(u)}]]
    /\ UNCHANGED <<catalogVars, nextPk, imp, exp, calls, orders, orderItems, contacts, nextOrderPk,
                   nextItemPk, events>>

\* views.py:502-529: BasketView.post
BasketViewPost(u, data) ==
    LET basket == GetOrCreateBasketByUser(u)
        added == AddItems(orderItems, nextItemPk, basket.id, data.items, 0)
        out == IF "items" \notin DOMAIN data THEN JsonResponse(FALSE, "missing_arguments", 0)
               ELSE IF basket.exception # None THEN Unhandled(basket.exception)
               ELSE added.out
        saves == "items" \in DOMAIN data /\ basket.exception = None
    IN  /\ saves => nextItemPk + Len(data.items) <= MaxItemPk + 1
        /\ resp' = [op |-> "basket_post", user |-> u, data |-> data, out |-> out]
        /\ orderItems' = IF saves THEN added.rows ELSE orderItems
        /\ nextItemPk' = IF saves THEN added.pk ELSE nextItemPk
        /\ UNCHANGED <<catalogVars, nextPk, imp, exp, calls, orders, contacts, nextOrderPk, events>>

\* mutant: filter(id=...), the rows of that id in any Order
RowsOfAnyOrder(rows, basket, id) == {r \in rows : r.id = id}

\* views.py:665 (and 582): OrderItem.objects.filter(order_id=basket.id, id=...)
RowsOfBasket(rows, basket, id) == {r \in rows : r.order = basket /\ r.id = id}

\* views.py:662-666: the loop of BasketView.put; OrderItem.quantity carries a
\* CHECK >= 0 (models.py:301)
RECURSIVE UpdateItems(_, _, _, _)
UpdateItems(rows, basket, items, updated) ==
    IF items = <<>>
    THEN [rows |-> rows, out |-> JsonResponse(TRUE, "none", updated)]
    ELSE LET item == Head(items)
             hit == RowsOfBasket(rows, basket, item.id)
         IN  IF hit # {} /\ item.quantity < 0
             THEN [rows |-> rows, out |-> Unhandled("IntegrityError")]
             ELSE UpdateItems((rows \ hit) \cup {[r EXCEPT !.quantity = item.quantity] : r \in hit},
                              basket, Tail(items), updated + Cardinality(hit))

\* views.py:641-668: BasketView.put
BasketViewPut(u, data) ==
    LET basket == GetOrCreateBasketByUserId(u)
        updated == UpdateItems(orderItems, basket.id, data.items, 0)
        out == IF "items" \notin DOMAIN data THEN JsonResponse(FALSE, "missing_arguments", 0)
               ELSE IF basket.exception # None THEN Unhandled(basket.exception)
               ELSE updated.out
        looks == "items" \in DOMAIN data
    IN  /\ looks => basket.next <= MaxOrderPk + 1
        /\ resp' = [op |-> "basket_put", user |-> u, data |-> data, out |-> out]
        /\ orders' = IF looks THEN basket.orders ELSE orders
        /\ nextOrderPk' = IF looks THEN basket.next ELSE nextOrderPk
        /\ orderItems' = IF looks /\ basket.exception = None THEN updated.rows ELSE orderItems
        /\ UNCHANGED <<catalogVars, nextPk, imp, exp, calls, contacts, nextItemPk, events>>

\* views.py:561-587: BasketView.delete
BasketViewDelete(u, data) ==
    LET basket == GetOrCreateBasketByUserId(u)
        hit == UNION {RowsOfBasket(orderItems, basket.id, id) : id \in data.items}
        out == IF "items" \notin DOMAIN data THEN JsonResponse(FALSE, "missing_arguments", 0)
               ELSE IF basket.exception # None THEN Unhandled(basket.exception)
               ELSE IF data.items = {} THEN JsonResponse(FALSE, "missing_arguments", 0)
               ELSE JsonResponse(TRUE, "none", Cardinality(hit))
        looks == "items" \in DOMAIN data
    IN  /\ looks => basket.next <= MaxOrderPk + 1
        /\ resp' = [op |-> "basket_delete", user |-> u, data |-> data, out |-> out]
        /\ orders' = IF looks THEN basket.orders ELSE orders
        /\ nextOrderPk' = IF looks THEN basket.next ELSE nextOrderPk
        /\ orderItems' = IF looks /\ basket.exception = None THEN orderItems \ hit
                         ELSE orderItems
        /\ UNCHANGED <<catalogVars, nextPk, imp, exp, calls, contacts, nextItemPk, events>>

\* views.py:1093: the attribute through which the view reads the lines of the order
LinesAccessor == "items"

\* views.py:1094: some line of the order asks for more than its ProductInfo holds
InsufficientStock(id) ==
    \E item \in orderItems :
        /\ item.order = id
        /\ \E r \in productInfos : r.pk = item.product_info /\ r.quantity < item.quantity

\* views.py:1089-1106: the response of OrderView.post
PlaceOrder(u, data) ==
    IF ~({"id", "contact"} \subseteq DOMAIN data)
    THEN JsonResponse(FALSE, "missing_arguments", 0)
    ELSE IF data.idType = "int" THEN Unhandled("AttributeError")
    ELSE IF data.idType # "digits" THEN JsonResponse(FALSE, "missing_arguments", 0)
    ELSE IF ~\E o \in orders : o.id = data.id /\ o.user = u THEN Unhandled("DoesNotExist")
    ELSE IF LinesAccessor \notin OrderAttributes THEN Unhandled("AttributeError")
    ELSE IF InsufficientStock(data.id) THEN JsonResponse(FALSE, "insufficient_stock", 0)
    ELSE IF ~\E c \in contacts : c.id = data.contact THEN JsonResponse(FALSE, "IntegrityError", 0)
    ELSE JsonResponse(TRUE, "none", 0)

\* views.py:1097-1099: the update of the order named by the request
UpdateOrder(rows, u, data) ==
    {IF o.id = data.id /\ o.user = u
     THEN [o EXCEPT !.contact = data.contact, !.status = "new"]
     ELSE o : o \in rows}

\* signals.py:58-81: what happens inside the receiver: it runs through, its
\* User.objects.get raises, or send_email.delay raises (no broker)
NotifyOutcomes == {"ok", "lookup_fail", "enqueue_fail"}

\* signals.py:50-81: the receiver of new_order: the first Order of the user that
\* has status basket is set to new and saved, then the email is enqueued; an
\* exception ends the receiver where it is raised and is logged, not raised on
new_order_signal(rows, u, notify) ==
    LET found == {o \in rows : o.user = u /\ o.status = "basket"}
        first == CHOOSE o \in found : \A q \in found : o.id <= q.id
    IN  IF notify = "lookup_fail" \/ found = {} THEN rows
        ELSE (rows \ {first}) \cup {[first EXCEPT !.status = "new"]}

\* mutant: the checkout takes the quantity of every line of the named order
\* from the stock of its ProductInfo
StockDecremented(u, data) ==
    LET lines(r) == {item \in orderItems : /\ item.product_info = r.pk
                                           /\ "id" \in DOMAIN data
                                           /\ item.order = data.id}
    IN  {IF lines(r) = {} THEN r
         ELSE [r EXCEPT !.quantity = @ - (CHOOSE item \in lines(r) : TRUE).quantity] :
            r \in productInfos}

\* views.py:1089-1106, signals.py:50-81: the ProductInfo rows after a checkout;
\* neither the view nor the receiver has a statement that writes one
StockAfterCheckout(u, data) == productInfos

\* views.py:1084-1106: OrderView.post with the outcome of the receiver; the
\* signal is sent, and its receiver runs, before the response is returned
Checkout(u, data, notify) ==
    LET out == PlaceOrder(u, data)
    IN  /\ resp' = [op |-> "order_post", user |-> u, data |-> data, out |-> out]
        /\ orders' = IF out.Status
                     THEN new_order_signal(UpdateOrder(orders, u, data), u, notify)
                     ELSE orders
        /\ events' = IF out.Status THEN Append(events, [user_id |-> u]) ELSE events
        /\ productInfos' = StockAfterCheckout(u, data)
        /\ UNCHANGED <<shops, categories, categoryShops, products, parameters,
                       productParameters, nextPk, imp, exp, calls, orderItems, contacts,
                       nextOrderPk, nextItemPk>>

\* views.py:1084-1106: OrderView.post
OrderViewPost(u, data) == \E notify \in NotifyOutcomes : Checkout(u, data, notify)

\* the bodies of the PUT and DELETE /basket requests that workers handle side by
\* side: an empty list to update, one id to delete
ConcurrentRequests ==
    {[op |-> "basket_put", data |-> [items |-> <<>>]],
     [op |-> "basket_delete", data |-> [items |-> {1}]]}

\* views.py:577, 661: the lookup half of Order.objects.get_or_create: when the
\* caller has a basket the handler runs on with it, when there is none
\* (DoesNotExist) the worker goes on to create one
BasketLookup(w, u, req) ==
    /\ calls[w].pc = "idle"
    /\ IF Baskets(u) # {}
       THEN IF req.op = "basket_put"
            THEN BasketViewPut(u, req.data)
            ELSE BasketViewDelete(u, req.data)
       ELSE /\ calls' = [calls EXCEPT
                           ![w] = [pc |-> "create", op |-> req.op, user |-> u,
                                   data |-> req.data]]
            /\ UNCHANGED <<catalogVars, nextPk, imp, exp, orders, orderItems, contacts,
                           nextOrderPk, nextItemPk, events, resp>>

\* views.py:577-587, 661-668: the creation half of get_or_create, on which no
\* constraint of Order (models.py:271-288) bears, and the rest of the handler
\* with the new basket, which has no lines
BasketCreate(w) ==
    /\ calls[w].pc = "create"
    /\ nextOrderPk <= MaxOrderPk
    /\ orders' = orders \cup {NewBasket(calls[w].user)}
    /\ nextOrderPk' = nextOrderPk + 1
    /\ resp' = [op |-> calls[w].op, user |-> calls[w].user, data |-> calls[w].data,
                out |-> IF calls[w].op = "basket_put"
                        THEN UpdateItems(orderItems, nextOrderPk, calls[w].data.items, 0).out
                        ELSE IF calls[w].data.items = {}
                        THEN JsonResponse(FALSE, "missing_arguments", 0)
                        ELSE JsonResponse(TRUE, "none", 0)]
    /\ calls' = [calls EXCEPT ![w] = IdleCall]
    /\ UNCHANGED <<catalogVars, nextPk, imp, exp, orderItems, contacts, nextItemPk, events>>

\* ---------------------------------------------------------- specification
Init ==
    /\ shops = [s \in ShopNames |-> None]
    /\ categories = {}
    /\ categoryShops = {}
    /\ products = {}
    /\ productInfos = {}
    /\ parameters = {}
    /\ productParameters = {}
    /\ nextPk = 1
    /\ orderItems = {}
    /\ imp = IdleJob
    /\ exp = IdleExport
    /\ orders = {}
    /\ contacts = {}
    /\ nextOrderPk = 1
    /\ nextItemPk = 1
    /\ events = <<>>
    /\ resp = NoRequest
    /\ calls = [w \in Workers |-> IdleCall]

\* the importer alone
Next == DoImport(Docs)

Spec == Init /\ [][Next]_vars

\* importer and exporter, the exported file fed back to the importer
NextExport == DoImport(ShortDocs) \/ DoImportExported \/ Export

SpecExport == Init /\ [][NextExport]_vars

\* the store after user u1 imported the document of ItemX and ItemX2 for the shop
\* S, with a contact of each caller, before any basket request
InitOrder ==
    /\ shops = [s \in ShopNames |-> IF s = "S" THEN "u1" ELSE None]
    /\ categories = {Cat1, Cat2}
    /\ categoryShops = {}
    /\ products = {[name |-> "X", category |-> 2]}
    /\ productInfos = {InfoRow(1, "S", ItemX), InfoRow(2, "S", ItemX2)}
    /\ parameters = {<<"color", 1>>}
    /\ productParameters = {[product_info |-> 1, parameter |-> "color", value |-> "red"]}
    /\ nextPk = 3
    /\ orderItems = {}
    /\ imp = IdleJob
    /\ exp = IdleExport
    /\ orders = {}
    /\ contacts = {[id |-> 1, user |-> "b1"], [id |-> 2, user |-> "u1"]}
    /\ nextOrderPk = 1
    /\ nextItemPk = 1
    /\ events = <<>>
    /\ resp = NoRequest
    /\ calls = [w \in Workers |-> IdleCall]

\* the basket and order views
NextOrder ==
    \/ \E u \in Callers : BasketViewGet(u)
    \/ \E u \in Callers, data \in AddRequests : BasketViewPost(u, data)
    \/ \E u \in Callers, data \in UpdateRequests : BasketViewPut(u, data)
    \/ \E u \in Callers, data \in DeleteRequests : BasketViewDelete(u, data)
    \/ \E u \in Callers, data \in CheckoutRequests : OrderViewPost(u, data)

SpecOrder == InitOrder /\ [][NextOrder]_vars

\* basket requests handled by two workers side by side
NextRace ==
    \/ \E w \in Workers, u \in Callers, req \in ConcurrentRequests : BasketLookup(w, u, req)
    \/ \E w \in Workers : BasketCreate(w)

SpecRace == InitOrder /\ [][NextRace]_vars

\* ------------------------------------------------- content of the catalog
\* the rows a shop's readers see
ShopRows(s) == {r \in productInfos : r.shop = s}

ShopParameterRows(s) ==
    {pp \in productParameters : \E r \in ShopRows(s) : r.pk = pp.product_info}

\* a ProductInfo row by content: its fields without the primary key, with the
\* (parameter, value) pairs of its ProductParameter rows
InfoContent(r) ==
    [product |-> r.product, shop |-> r.shop, model |-> r.model,
     external_id |-> r.external_id, price |-> r.price, price_rrc |-> r.price_rrc,
     quantity |-> r.quantity,
     parameters |-> {<<pp.parameter, pp.value>> :
                        pp \in {x \in productParameters : x.product_info = r.pk}}]

\* the content a goods entry of a document asks for
EntryContent(shop, item) ==
    [product |-> item.name, shop |-> shop, model |-> item.model,
     external_id |-> item.id, price |-> item.price, price_rrc |-> item.price_rrc,
     quantity |-> item.quantity, parameters |-> ItemParameters(item)]

\* the goods entries of a document that the importer does not skip
KeptEntries(d) ==
    {i \in 1..Len(d.goods) : \E c \in categories : c.id = d.goods[i].category}

SkippedEntries(d) == (1..Len(d.goods)) \ KeptEntries(d)

\* the catalog by content: rows without database ids, and how many there are
CatalogContent ==
    [infos |-> {InfoContent(r) : r \in productInfos},
     infoCount |-> Cardinality(productInfos),
     productParameterCount |-> Cardinality(productParameters),
     parameters |-> parameters,
     products |-> products,
     categories |-> categories]

\* every entry has the required fields, names a category of the document, and no
\* two entries share an external id or list one product under two categories
WellFormed(d) ==
    /\ FirstMissing(d, RequiredFields) = None
    /\ \A i \in 1..Len(d.goods) :
          /\ FirstMissing(d.goods[i], RequiredItemFields) = None
          /\ \E j \in 1..Len(d.categories) : d.categories[j].id = d.goods[i].category
    /\ \A i, j \in 1..Len(d.goods) :
          i # j => /\ d.goods[i].id # d.goods[j].id
                   /\ d.goods[i].name # d.goods[j].name

\* the job has just ended with {'Status': True}
ImportSucceeded == imp.pc = "done" /\ imp.result.Status /\ imp.shop # None

\* ------------------------------------------------------------------ claims

\* C1: after a successful import of a well-formed document X for shop S, the
\* document do_export builds for S has the categories of X and the goods of X
\* (id, name, category, model, quantity, price, price_rrc, parameters), as sets.
C1_ExportOfImport ==
    (ImportSucceeded /\ WellFormed(imp.doc)) =>
        LET e == ExportData(imp.shop)
            x == imp.doc
        IN  /\ {e.categories[i] : i \in 1..Len(e.categories)}
                 = {x.categories[i] : i \in 1..Len(x.categories)}
            /\ {[id |-> g.id, name |-> g.name, category |-> g.category_id,
                  model |-> g.model, quantity |-> g.quantity, price |-> g.price,
                  price_rrc |-> g.price_rrc, parameters |-> g.parameters] :
                    g \in {e.goods[i] : i \in 1..Len(e.goods)}}
                 = {[id |-> g.id, name |-> g.name, category |-> g.category,
                     model |-> g.model, quantity |-> g.quantity, price |-> g.price,
                     price_rrc |-> g.price_rrc, parameters |-> ItemParameters(g)] :
                    g \in {x.goods[i] : i \in 1..Len(x.goods)}}

\* C2: the file do_export wrote for a shop with N ProductInfo rows, fed back to
\* do_import by the shop's owner while the shop still holds those rows, is imported
\* successfully and the shop holds the same N rows by content afterwards.
C2_ImportOfExport ==
    (imp.pc = "done" /\ imp.fresh /\ imp.user = shops[imp.doc.shop]) =>
        /\ imp.result.Status
        /\ Cardinality(ShopRows(imp.doc.shop)) = Len(imp.doc.goods)
        /\ {InfoContent(r) : r \in ShopRows(imp.doc.shop)}
             = {[product |-> g.name, shop |-> imp.doc.shop, model |-> g.model,
                 external_id |-> g.id, price |-> g.price, price_rrc |-> g.price_rrc,
                 quantity |-> g.quantity, parameters |-> g.parameters] :
                    g \in {imp.doc.goods[i] : i \in 1..Len(imp.doc.goods)}}

\* C3: a job that repeats the job before it (same document, same user) leaves
\* the ProductInfo, ProductParameter, Parameter, Product and Category rows, taken
\* by content, as the first job left them: none of its steps changes them.
C3_IdempotentReimport ==
    [][(imp'.pc # "idle" /\ imp'.repeat) => CatalogContent' = CatalogContent]_vars

C3_Witness ==
    /\ ImportSucceeded
    /\ imp.repeat
    /\ imp.prior > 0
    /\ ShopRows(imp.shop) # {}
    /\ productParameters # {}

\* C4: after a successful import the shop's ProductInfo rows are one row per
\* goods entry that was not skipped, with that entry's content, and every one of
\* them was created by this job: no row the shop had before remains.
C4_FullReplace ==
    ImportSucceeded =>
        /\ {InfoContent(r) : r \in ShopRows(imp.shop)}
             = {EntryContent(imp.shop, imp.doc.goods[i]) : i \in KeptEntries(imp.doc)}
        /\ Cardinality(ShopRows(imp.shop)) = Cardinality(KeptEntries(imp.doc))
        /\ \A r \in ShopRows(imp.shop) : r.pk >= imp.pk0

C4_Witness ==
    /\ ImportSucceeded
    /\ imp.prior > 0
    /\ ~imp.repeat
    /\ ShopRows(imp.shop) # {}

\* C5: every step leaves the ProductInfo and ProductParameter rows that readers
\* see for a shop as they were, except the commit of a successful import, which
\* replaces them by the complete snapshot of the document; a job that fails
\* while processing goods therefore leaves the rows of before the job.
C5_ImportAtomic ==
    [][\A s \in ShopNames :
          \/ /\ ShopRows(s)' = ShopRows(s)
             /\ ShopParameterRows(s)' = ShopParameterRows(s)
          \/ /\ imp.pc = "tx"
             /\ imp.shop = s
             /\ imp'.pc = "done"
             /\ imp'.result.Status
             /\ {InfoContent(r) : r \in ShopRows(s)}'
                  = {EntryContent(s, imp.doc.goods[i]) : i \in KeptEntries(imp.doc)}
             /\ Cardinality(ShopRows(s))' = Cardinality(KeptEntries(imp.doc))]_vars

\* a job failed on a later goods entry after it had created a row, and the rows
\* the shop had before are what readers see
C5_Witness ==
    /\ imp.pc = "done"
    /\ imp.result.Error = "KeyError"
    /\ imp.i = 2
    /\ imp.prior > 0
    /\ Cardinality(ShopRows(imp.doc.shop)) = imp.prior

\* C6: a document of entries that all carry the required fields, with distinct
\* external ids, one of which names a category that does not exist, is imported
\* successfully: every other entry gets its ProductInfo, the bad entry gets no
\* ProductInfo, no Product and no ProductParameter.
C6_PartialItemFailure ==
    (/\ imp.pc = "done"
     /\ imp.shop # None
     /\ SkippedEntries(imp.doc) # {}
     /\ \A i \in 1..Len(imp.doc.goods) :
           FirstMissing(imp.doc.goods[i], RequiredItemFields) = None
     /\ \A i, j \in KeptEntries(imp.doc) :
           i # j => imp.doc.goods[i].id # imp.doc.goods[j].id
     /\ \A i \in KeptEntries(imp.doc) :
           ~\E r \in productInfos : r.shop # imp.shop /\ r.external_id = imp.doc.goods[i].id)
    => /\ imp.result.Status
       /\ \A i \in KeptEntries(imp.doc) :
             \E r \in ShopRows(imp.shop) :
                InfoContent(r) = EntryContent(imp.shop, imp.doc.goods[i])
       /\ \A i \in SkippedEntries(imp.doc) :
             /\ ~\E r \in ShopRows(imp.shop) : r.pk >= imp.pk0 /\
                    InfoContent(r) = EntryContent(imp.shop, imp.doc.goods[i])
             /\ ~\E q \in products : q.category = imp.doc.goods[i].category
       /\ Cardinality(ShopRows(imp.shop)) = Cardinality(KeptEntries(imp.doc))
       /\ {<<(CHOOSE r \in productInfos : r.pk = pp.product_info).external_id,
              pp.parameter, pp.value>> : pp \in ShopParameterRows(imp.shop)}
            = UNION {{<<imp.doc.goods[i].id, pv[1], pv[2]>> :
                        pv \in ItemParameters(imp.doc.goods[i])} :
                     i \in KeptEntries(imp.doc)}

C6_Witness ==
    /\ ImportSucceeded
    /\ SkippedEntries(imp.doc) # {}
    /\ KeptEntries(imp.doc) # {}
    /\ ShopRows(imp.shop) # {}

\* C7: a job whose document names an existing shop of another owner ends at
\* once with a failure (the permission error when the earlier checks pass) and
\* leaves the owner, the shop's ProductInfo rows and the Category rows as they
\* were; and no step changes the owner of an existing shop.
C7_OwnerFixed ==
    [][/\ (/\ imp.pc \in {"idle", "done"}
           /\ imp' # imp
           /\ imp'.doc # NoDoc
           /\ "shop" \in DOMAIN imp'.doc
           /\ shops[imp'.doc.shop] \notin {None, imp'.user})
          => /\ imp'.pc = "done"
             /\ ~imp'.result.Status
             /\ CheckRequiredFields(imp'.doc).Status => imp'.result.Error = "PermissionError"
             /\ UNCHANGED <<shops, productInfos, productParameters, categories>>
       /\ \A s \in ShopNames : shops[s] # None => shops'[s] = shops[s]]_vars

C7_Witness ==
    /\ imp.pc = "done"
    /\ imp.result.Error = "PermissionError"
    /\ shops[imp.doc.shop] \notin {None, imp.user}
    /\ ShopRows(imp.doc.shop) # {}

\* C8: after a successful import every category listed in the document exists
\* under its external id and is linked to the shop in Category.shops, so that the
\* export's query of the shop's categories returns it.
C8_CategoriesLinked ==
    ImportSucceeded =>
        \A i \in 1..Len(imp.doc.categories) :
            /\ \E c \in categories : c.id = imp.doc.categories[i].id
            /\ <<imp.doc.categories[i].id, imp.shop>> \in categoryShops
            /\ \E c \in ShopCategories(imp.shop) : c.id = imp.doc.categories[i].id

\* C9: a checkout request (id a string of digits, a contact given) by the owner
\* of a basket in which some line asks for more than its ProductInfo holds is
\* answered with a rejection, leaves every Order as it was (status basket, same
\* contact) and sends no new_order signal.
C9_StockCheckRejects ==
    [][\A u \in Callers, data \in CheckoutRequests :
          (/\ OrderViewPost(u, data)
           /\ "contact" \in DOMAIN data
           /\ data.idType = "digits"
           /\ \E o \in orders : o.id = data.id /\ o.user = u /\ o.status = "basket"
           /\ InsufficientStock(data.id))
          => /\ ~resp'.out.Status
             /\ ~resp'.out.unhandled
             /\ orders' = orders
             /\ events' = events]_vars

\* C10: a checkout request by the owner of a basket, naming a contact of the
\* caller, every line of the basket within the quantity of its ProductInfo, sets
\* the Order to status new with the given contact, reports success and sends
\* exactly one new_order signal.
C10_CheckoutPlacesOrder ==
    [][\A u \in Callers, data \in CheckoutRequests :
          (/\ OrderViewPost(u, data)
           /\ "contact" \in DOMAIN data
           /\ data.idType = "digits"
           /\ \E o \in orders : o.id = data.id /\ o.user = u /\ o.status = "basket"
           /\ \E c \in contacts : c.id = data.contact /\ c.user = u
           /\ ~InsufficientStock(data.id))
          => /\ resp'.out.Status
             /\ \E o \in orders' : /\ o.id = data.id
                                   /\ o.status = "new"
                                   /\ o.contact = data.contact
             /\ events' = Append(events, [user_id |-> u])]_vars

\* C11: a checkout by the owner of a basket (own contact, every line within
\* stock) moves that Order from basket to new; an Order that has left basket is
\* changed by no request, also not by a checkout that names its id again; and
\* no Order that has left basket is in basket again.
C11_StatusMonotone ==
    [][/\ \A u \in Callers, data \in CheckoutRequests :
             (/\ OrderViewPost(u, data)
              /\ "contact" \in DOMAIN data
              /\ data.idType = "digits"
              /\ \E o \in orders : o.id = data.id /\ o.user = u /\ o.status = "basket"
              /\ \E c \in contacts : c.id = data.contact /\ c.user = u
              /\ ~InsufficientStock(data.id))
             => \E o \in orders' : o.id = data.id /\ o.status = "new"
       /\ \A o \in orders : o.status # "basket" => o \in orders'
       /\ \A o \in orders' :
             o.status = "basket" => (o \in orders \/ ~\E q \in orders : q.id = o.id)]_vars

\* the Order rows of a user, and the OrderItem rows of those Orders
OrdersOf(u) == {o \in orders : o.user = u}

ItemsOf(u) == {r \in orderItems : \E o \in OrdersOf(u) : o.id = r.order}

\* the keys of the Order rows a response returns
Returned(r) == IF "rows" \in DOMAIN r.out THEN r.out.rows ELSE {}

\* C12: no basket or checkout request of a caller A returns, creates, changes or
\* deletes an Order or OrderItem row of another user B, whatever ids the request
\* carries: in every step handled for a caller other than B, B's Order rows and
\* the OrderItem rows of B's Orders stay as they were and none is returned.
C12_OwnershipIsolation ==
    [][\A b \in Callers :
          resp'.user # b =>
             /\ OrdersOf(b)' = OrdersOf(b)
             /\ ItemsOf(b)' = ItemsOf(b)
             /\ Returned(resp') \cap {o.id : o \in OrdersOf(b)} = {}]_vars

\* a caller has added an item that carried the key of another user's Order: the
\* line is in the caller's own basket
C12_Witness ==
    /\ resp.op = "basket_post"
    /\ resp.out.Status
    /\ \E i \in 1..Len(resp.data.items) :
          /\ "order" \in DOMAIN resp.data.items[i]
          /\ \E o \in orders : o.id = resp.data.items[i].order /\ o.user # resp.user
          /\ \E r \in ItemsOf(resp.user) :
                r.product_info = resp.data.items[i].product_info

\* C13: a checkout by the owner of a basket that names a contact of another
\* user, or a contact that does not exist, is answered with a rejection and
\* leaves every Order as it was; and a checkout that succeeds leaves the Order
\* with a contact of the Order's user.
C13_OwnContactRequired ==
    [][\A u \in Callers, data \in CheckoutRequests :
          (/\ OrderViewPost(u, data)
           /\ "contact" \in DOMAIN data
           /\ data.idType = "digits"
           /\ \E o \in orders : o.id = data.id /\ o.user = u /\ o.status = "basket")
          => /\ (~\E c \in contacts : c.id = data.contact /\ c.user = u)
                   => /\ ~resp'.out.Status
                      /\ ~resp'.out.unhandled
                      /\ orders' = orders
             /\ resp'.out.Status
                   => \E o \in orders', c \in contacts :
                         o.id = data.id /\ c.id = o.contact /\ c.user = o.user]_vars

\* C14: in every reachable state each user has at most one Order of status
\* basket, also when two requests of the user are handled side by side.
C14_OneBasketPerUser == \A u \in Callers : Cardinality(Baskets(u)) <= 1

\* C15: an add request never creates an OrderItem of a quantity that is not
\* positive, and a request of one item whose quantity is zero or negative is
\* answered with a failure and creates no OrderItem.
C15_PositiveQuantityOnly ==
    [][\A u \in Callers, data \in AddRequests :
          (BasketViewPost(u, data) /\ "items" \in DOMAIN data)
          => /\ \A r \in orderItems' \ orderItems : r.quantity > 0
             /\ (Len(data.items) = 1 /\ data.items[1].quantity <= 0)
                   => (~resp'.out.Status /\ orderItems' = orderItems)]_vars

\* C16: an add request of a caller who has a basket, whose batch mixes an item
\* of negative quantity with items that are valid (a positive quantity of a
\* ProductInfo that exists and is not yet in the basket), creates an OrderItem in
\* the caller's basket for every valid item, before or after the invalid one,
\* creates none for the invalid item, and returns the number of OrderItems
\* created as its count.
C16_FailsPerItem ==
    [][\A u \in Callers, data \in AddRequests :
          (/\ BasketViewPost(u, data)
           /\ "items" \in DOMAIN data
           /\ Baskets(u) # {}
           /\ \E i \in 1..Len(data.items) : data.items[i].quantity < 0
           /\ \A i \in 1..Len(data.items) :
                 data.items[i].quantity > 0 =>
                    /\ \E p \in productInfos : p.pk = data.items[i].product_info
                    /\ ~\E r \in ItemsOf(u) : r.product_info = data.items[i].product_info)
          => LET created == orderItems' \ orderItems
             IN  /\ \A i \in 1..Len(data.items) :
                       data.items[i].quantity > 0 =>
                          \E r \in created, b \in Baskets(u) :
                             /\ r.order = b.id
                             /\ r.product_info = data.items[i].product_info
                             /\ r.quantity = data.items[i].quantity
                 /\ \A r \in created : r.quantity > 0
                 /\ resp'.out.count = Cardinality(created)]_vars

\* the OrderItem rows of the caller's basket whose id is among `ids`
Listed(u, ids) ==
    {r \in orderItems : r.id \in ids /\ \E b \in Baskets(u) : b.id = r.order}

C18_ImportRetriesFetch ==
    (/\ imp.pc = "done"
     /\ imp.net \in {"head_fail", "get_fail"}
     /\ imp.result.Detail \in {"url", "fetch"})
    => imp.retries = max_retries

\* C19: a do_export job that failed to create the directory or to save the file
\* has ended with its failure result only after max_retries retries.
C19_ExportRetriesStorage ==
    (/\ exp.pc = "done"
     /\ exp.result.Error \in {"DIRECTORY_CREATE_FAILED", "FILE_SAVE_FAILED"})
    => exp.retries = max_retries

\* C20: a job that fails on validation or structure is never sent back for a
\* retry and ends on its first execution with a failure result: do_import with a
\* missing top-level key or goods field, a malformed document, a bad URL or a
\* shop of another owner; do_export with no shop id or an id of no shop.
C20_ValidationNotRetried ==
    /\ imp.pc # "retry"
    /\ (/\ imp.pc = "done"
        /\ imp.result.Error \in {"KeyError", "YAMLError", "ValueError", "PermissionError"})
       => imp.retries = 0
    /\ (exp.pc # "idle" /\ exp.arg = None)
       => (exp.pc = "done" /\ exp.retries = 0 /\ ~exp.result.Status)
    /\ (exp.pc = "done" /\ exp.result.Error = "SHOP_NOT_FOUND") => exp.retries = 0

\* the documents of the runs that follow jobs to their end
JobDocs == {d \in ShortDocs : d.goods \in {<<>>, <<ItemX>>, <<ItemNoPrice>>}}

NextJobs == DoImport(JobDocs) \/ Export

\* the Celery workers run what is handed to them: an import that has opened its
\* transaction goes on to its end, and an execution of do_export that is due,
\* a retry sent back by the handler included, is run
FairJobs == WF_vars(DoImportItem \/ DoImportCommit) /\ SF_vars(Export)

SpecJobs == Init /\ [][NextJobs]_vars /\ FairJobs

ItemNeg == [id |-> 5, name |-> "X", category |-> 1, model |-> "m5", quantity |-> -1,
            price |-> 10, price_rrc |-> 12]

\* the documents re-imported for the shop S while it has customers: an empty
\* price list, the scenario entry, and entries of negative quantity
StoreDocs ==
    {[shop |-> "S", categories |-> <<Cat1, Cat2>>, goods |-> gl] :
        gl \in {<<>>, <<ItemX>>, <<ItemNeg>>, <<ItemX, ItemNeg>>}}

\* the buyer whose requests run next to the imports
Shoppers == {"b1"}

\* the importer next to the basket and order views
NextStore ==
    \/ DoImport(StoreDocs)
    \/ \E u \in Shoppers, data \in AddRequests : BasketViewPost(u, data)
    \/ \E u \in Shoppers, data \in UpdateRequests : BasketViewPut(u, data)
    \/ \E u \in Shoppers, data \in DeleteRequests : BasketViewDelete(u, data)
    \/ \E u \in Shoppers, data \in CheckoutRequests : OrderViewPost(u, data)

SpecStore == InitOrder /\ [][NextStore]_vars

\* C22: in every reachable state every ProductInfo row has a quantity of at
\* least 0, whatever imports (entries of negative quantity among them), basket
\* requests and checkouts have run.
C22_QuantityNeverNegative == \A r \in productInfos : r.quantity >= 0

\* an import whose document carries an entry of negative quantity has ended: it
\* failed on the CHECK of the column and the shop has its rows
C22_Witness ==
    /\ imp.pc = "done"
    /\ imp.result.Error = "IntegrityError"
    /\ \E i \in 1..GoodsLen(imp.doc) : imp.doc.goods[i].quantity < 0
    /\ \E r \in productInfos : r.shop = imp.doc.shop

\* the documents of two shops whose price lists use the same external ids
ShopDocs ==
    {[shop |-> s, categories |-> <<Cat1, Cat2>>, goods |-> gl] :
        s \in ShopNames, gl \in {<<>>, <<ItemX>>, <<ItemX2>>, <<ItemX, ItemX2>>}}

\* the importer fed the documents of both shops
NextShops == DoImport(ShopDocs)

SpecShops == Init /\ [][NextShops]_vars

\* C23: no two ProductInfo rows share product, shop and external id; and the
\* import of a well-formed document by the owner of its shop succeeds and leaves
\* a row of that shop for every entry, also when an entry uses an external id
\* that a row of another shop has.
C23_UniquePerShop ==
    /\ \A r, q \in productInfos :
          (r.product = q.product /\ r.shop = q.shop /\ r.external_id = q.external_id)
             => r = q
    /\ (imp.pc = "done" /\ imp.shop # None /\ WellFormed(imp.doc))
          => /\ imp.result.Status
             /\ \A i \in 1..Len(imp.doc.goods) :
                   \E r \in ShopRows(imp.shop) : r.external_id = imp.doc.goods[i].id

\* ------------------------------------------------- POST /partner/update
\* the values of request.data.get('url'): no url, an empty one, a text that is
\* no URL, and two URLs
Urls == {None, "", "price list", "https://example.com/shop1.yaml", "http://10.0.0.1/p.yaml"}

\* views.py:722-726: django's URLValidator accepts the text as a URL
URLValidator(url) == url \in {"https://example.com/shop1.yaml", "http://10.0.0.1/p.yaml"}

\* the bodies of a POST /partner/update
UpdateBodies == {[url |-> x] : x \in Urls}

\* mutant: every authenticated caller has the access of a shop
check_any_access(u) == TRUE

\* utils.py:16-19: check_shop_access lets the request of a shop-type user pass
check_shop_access(u) == UserType(u) = "shop"

\* a JSON response with its HTTP status code
HttpResponse(status, error, code) ==
    [Status |-> status, Error |-> error, unhandled |-> FALSE, count |-> 0, code |-> code]

\* views.py:705-730: the response of PartnerUpdate.post
PartnerResponse(u, data) ==
    IF ~check_shop_access(u) THEN HttpResponse(FALSE, "shop_only", 403)
    ELSE IF data.url \in {None, ""} THEN HttpResponse(FALSE, "missing_arguments", 400)
    ELSE IF ~URLValidator(data.url) THEN HttpResponse(FALSE, "bad_url", 400)
    ELSE HttpResponse(TRUE, "none", 200)

\* views.py:705-730: PartnerUpdate.post; do_import.delay puts a job for the
\* caller in the queue of the worker, which holds one job at a time
PartnerUpdatePost(u, data) ==
    LET out == PartnerResponse(u, data)
    IN  /\ out.Status => imp.pc \in {"idle", "done"}
        /\ resp' = [op |-> "partner_update", user |-> u, data |-> data, out |-> out]
        /\ imp' = IF out.Status THEN [IdleJob EXCEPT !.pc = "queued", !.user = u] ELSE imp
        /\ UNCHANGED <<catalogVars, nextPk, orderItems, exp, orders, contacts, nextOrderPk,
                       nextItemPk, events, calls>>

\* the view next to the import job
NextPartner ==
    \/ \E u \in Users, data \in UpdateBodies : PartnerUpdatePost(u, data)
    \/ DoImport(JobDocs)

SpecPartner == Init /\ [][NextPartner]_vars

RivalDocs ==
    {[shop |-> "S", categories |-> <<Cat1, Cat2>>, goods |-> gl] :
        gl \in {<<>>, <<ItemX>>, <<ItemX2>>, <<ItemX0>>, <<ItemX, ItemX2>>, <<ItemX2, ItemX>>}}

\* a worker's job: its document, the next goods entry, its open transaction
JobCall(pc, u, d, i, w, result) ==
    [pc |-> pc, op |-> "do_import", user |-> u,
     data |-> [doc |-> d, i |-> i, w |-> w, result |-> result]]

\* the workers, other than `w`, that are inside their atomic block
OpenRivals(w) == {o \in Workers \ {w} : calls[o].op = "do_import" /\ calls[o].pc = "tx"}

\* the rows a worker's transaction has deleted and not yet committed
LockedRows(o) == {r \in productInfos : r.pk \in calls[o].data.w.delPI}

\* tasks.py:48-89: the job up to the query with which
\* ProductInfo.objects.filter(shop=shop).delete() collects the rows to delete
\* (they have dependants, models.py:235, 298, so they are read first)
ImportSelect(w, d, u) ==
    /\ calls[w].pc = "idle"
    /\ Precheck(u, "ok").Status
    /\ CheckRequiredFields(d).Status
    /\ shops[d.shop] = u
    /\ categories' = UpsertCategories(categories, d.categories)
    /\ calls' = [calls EXCEPT
                   ![w] = JobCall("select", u, d, 1, DeleteShopInfos(EmptyTx, d.shop), NoError)]
    /\ UNCHANGED <<shops, categoryShops, txTables, nextPk, imp, exp, orders, contacts,
                   nextOrderPk, nextItemPk, events, resp>>

\* tasks.py:89: the DELETE of the collected rows; it waits while another open
\* transaction has deleted one of them
ImportDelete(w) ==
    /\ calls[w].op = "do_import"
    /\ calls[w].pc = "select"
    /\ \A o \in OpenRivals(w) : \A r \in LockedRows(o) : r.pk \notin calls[w].data.w.delPI
    /\ calls' = [calls EXCEPT ![w].pc = "tx"]
    /\ UNCHANGED <<catalogVars, nextPk, orderItems, imp, exp, orders, contacts, nextOrderPk,
                   nextItemPk, events, resp>>

\* the INSERT of the worker's next entry waits for another open transaction
InsertWaits(w) ==
    /\ calls[w].op = "do_import"
    /\ calls[w].pc = "tx"
    /\ calls[w].data.i <= Len(calls[w].data.doc.goods)
    /\ \E o \in OpenRivals(w) :
          \E r \in calls[o].data.w.newPI \cup LockedRows(o) :
              r.external_id = calls[w].data.doc.goods[calls[w].data.i].id

\* tasks.py:91-134: the next goods entry of the worker's job
ImportInsert(w) ==
    /\ calls[w].op = "do_import"
    /\ calls[w].pc = "tx"
    /\ calls[w].data.i <= Len(calls[w].data.doc.goods)
    /\ ~InsertWaits(w)
    /\ LET job == calls[w].data
           r == ImportItem(job.w, nextPk, job.doc.shop, job.doc.goods[job.i])
       IN  /\ nextPk' = r.pk
           /\ calls' = [calls EXCEPT
                          ![w] = IF r.out = "raise"
                                 THEN JobCall("done", calls[w].user, job.doc, job.i, EmptyTx,
                                              r.result)
                                 ELSE JobCall("tx", calls[w].user, job.doc, job.i + 1, r.w,
                                              NoError)]
    /\ UNCHANGED <<catalogVars, orderItems, imp, exp, orders, contacts, nextOrderPk,
                   nextItemPk, events, resp>>

\* two transactions wait for each other: the database ends one of them with an
\* error, which leaves the atomic block and is reported by tasks.py:148-150
ImportDeadlock(w) ==
    /\ \A o \in Workers : InsertWaits(o)
    /\ calls' = [calls EXCEPT
                   ![w] = JobCall("done", calls[w].user, calls[w].data.doc, calls[w].data.i,
                                  EmptyTx, Failure("OperationalError", "deadlock"))]
    /\ UNCHANGED <<catalogVars, nextPk, orderItems, imp, exp, orders, contacts, nextOrderPk,
                   nextItemPk, events, resp>>

\* tasks.py:88,136: the atomic block of the worker's job ends and commits
ImportCommit(w) ==
    /\ calls[w].op = "do_import"
    /\ calls[w].pc = "tx"
    /\ calls[w].data.i > Len(calls[w].data.doc.goods)
    /\ Persist(calls[w].data.w)
    /\ calls' = [calls EXCEPT
                   ![w] = JobCall("done", calls[w].user, calls[w].data.doc, calls[w].data.i,
                                  EmptyTx, NoError)]
    /\ UNCHANGED <<shops, categories, categoryShops, nextPk, imp, exp, orders, contacts,
                   nextOrderPk, nextItemPk, events, resp>>

\* two import jobs for the shop S, each worker running one
NextImports ==
    \/ \E w \in Workers, d \in RivalDocs, u \in ShopUsers : ImportSelect(w, d, u)
    \/ \E w \in Workers : ImportDelete(w)
    \/ \E w \in Workers : ImportInsert(w)
    \/ \E w \in Workers : ImportDeadlock(w)
    \/ \E w \in Workers : ImportCommit(w)

\* the shop S of u1 with its two rows, or after an import of an empty price list
InitImports ==
    /\ shops = [s \in ShopNames |-> IF s = "S" THEN "u1" ELSE None]
    /\ categories = {Cat1, Cat2}
    /\ categoryShops = {}
    /\ products = {[name |-> "X", category |-> 2]}
    /\ \/ /\ productInfos = {InfoRow(1, "S", ItemX), InfoRow(2, "S", ItemX2)}
          /\ productParameters = {[product_info |-> 1, parameter |-> "color", value |-> "red"]}
       \/ /\ productInfos = {}
          /\ productParameters = {}
    /\ parameters = {<<"color", 1>>}
    /\ nextPk = 3
    /\ orderItems = {}
    /\ imp = IdleJob
    /\ exp = IdleExport
    /\ orders = {}
    /\ contacts = {[id |-> 1, user |-> "b1"], [id |-> 2, user |-> "u1"]}
    /\ nextOrderPk = 1
    /\ nextItemPk = 1
    /\ events = <<>>
    /\ resp = NoRequest
    /\ calls = [w \in Workers |-> IdleCall]

SpecImports == InitImports /\ [][NextImports]_vars

\* the rows a document asks for, by content
Snapshot(d) == {EntryContent(d.shop, d.goods[i]) : i \in KeptEntries(d)}

\* C26: when two do_import jobs for the shop S, run side by side with the
\* documents D1 and D2, have both ended, the ProductInfo rows of S are, by
\* content, exactly the rows of D1 or exactly the rows of D2.
C26_ImportsSerialized ==
    (\A w \in Workers : calls[w].op = "do_import" /\ calls[w].pc = "done")
       => \E w \in Workers :
             {InfoContent(r) : r \in ShopRows("S")} = Snapshot(calls[w].data.doc)

\* C29: no step of a do_import job deletes or alters an OrderItem: the lines of
\* every basket and of every placed order are after the step what they were
\* before it.
C29_ImportKeepsOrderLines == [][imp' # imp => orderItems' = orderItems]_vars

\* C30: a checkout request, whatever its answer, leaves every ProductInfo row as
\* it was: the quantity of a row is compared with the lines of the order and is
\* not written.
C30_CheckoutKeepsCatalog ==
    [][(resp' # resp /\ resp'.op = "order_post")
          => /\ productInfos' = productInfos
             /\ productParameters' = productParameters
             /\ products' = products]_vars

\* a checkout was answered for an order of the caller that has a line, the
\* ProductInfo of that line in the catalog
C30_Witness ==
    /\ resp.op = "order_post"
    /\ "id" \in DOMAIN resp.data
    /\ \E o \in orders, item \in orderItems, r \in productInfos :
          /\ o.id = resp.data.id
          /\ o.user = resp.user
          /\ item.order = o.id
          /\ item.quantity > 0
          /\ r.pk = item.product_info

====
